---- MODULE Spec2Model ----
(***************************************************************************)
(* A model of src/main.py: one run of connect(), the multi-touch           *)
(* attribution pipeline.                                                   *)
(*                                                                         *)
(* Tables (DataFrames, the CSV artifact, the store's tables) are sequences *)
(* of records, in row order.  A nullable numeric cell is a sequence of     *)
(* length at most one: <<>> is NaN / NULL, <<v>> is the number v.          *)
(* Numbers are exact integers in fixed units:                              *)
(*   cost, revenue : whole units                                           *)
(*   weights, ihc  : thirtieths (0.5 is 15, 0.2 is 6), every weight a      *)
(*                   multiple of 3 so that the division by 3 is exact      *)
(* A quotient (CPO, ROAS) is a record [kind, num, den] with kind one of    *)
(* "num", "inf", "nan", as IEEE division produces them.                    *)
(***************************************************************************)
EXTENDS Integers, Sequences, FiniteSets

\* ---------------------------------------------------------------- bounds
MaxSessions == 2
MaxConvs == 2
MaxTime == 1

Users == {1, 2}
Times == 0..MaxTime
Dates == {1, 2}
Flags == {0, 1}

\* ------------------------------------------------------- nullable numbers
NaN == <<>>
Num(v) == <<v>>
IsNull(x) == x = <<>>

\* Elementwise arithmetic of two cells: NaN if either is NaN.
Mul(a, b) == IF IsNull(a) \/ IsNull(b) THEN NaN ELSE Num(a[1] * b[1])
Add(a, b) == IF IsNull(a) \/ IsNull(b) THEN NaN ELSE Num(a[1] + b[1])

\* Series.sum() / groupby 'sum': NaN cells are skipped, the empty sum is 0.
RECURSIVE SumSkipNa(_)
SumSkipNa(cells) ==
    IF cells = <<>> THEN 0
    ELSE (IF IsNull(Head(cells)) THEN 0 ELSE Head(cells)[1]) + SumSkipNa(Tail(cells))

\* Elementwise Series / Series on float cells: x/0 is inf, 0/0 is NaN.
Quotient(a, b) ==
    IF IsNull(a) \/ IsNull(b) THEN [kind |-> "nan", num |-> 0, den |-> 1]
    ELSE IF b[1] = 0
         THEN IF a[1] = 0 THEN [kind |-> "nan", num |-> 0, den |-> 1]
                          ELSE [kind |-> "inf", num |-> 0, den |-> 1]
         ELSE [kind |-> "num", num |-> a[1], den |-> b[1]]

RECURSIVE Flatten(_)
Flatten(seqs) == IF seqs = <<>> THEN <<>> ELSE Head(seqs) \o Flatten(Tail(seqs))

\* ------------------------------------------------------ reference data
\* IHC_channel_weights.csv: channel, initializer weight, holder weight,
\* closer weight.  "unlisted" is a channel_name with no row here.
ChannelWeights ==
    << [channel |-> "paid_search", initializer |-> 15, holder |-> 9, closer |-> 6],
       [channel |-> "email", initializer |-> 6, holder |-> 12, closer |-> 12] >>
Channels == {"paid_search", "email", "unlisted"}

\* ------------------------------------------------ build_customer_journeys
\* pd.merge(df_session_sources, df_session_costs, on='session_id'): the
\* default how='inner'; one output row per (session, matching cost row).
MergeInnerCosts(ss, sc) ==
    Flatten([i \in 1..Len(ss) |->
        LET ms == SelectSeq(sc, LAMBDA c : c.session_id = ss[i].session_id)
        IN  [j \in 1..Len(ms) |->
               [session_id |-> ss[i].session_id, user_id |-> ss[i].user_id,
                channel_name |-> ss[i].channel_name, event_time |-> ss[i].event_time,
                event_date |-> ss[i].event_date,
                holder_engagement |-> ss[i].holder_engagement,
                closer_engagement |-> ss[i].closer_engagement,
                impression_interaction |-> ss[i].impression_interaction,
                cost |-> ms[j].cost]]])

\* pd.merge(merged_session_sources_costs, df_conversions, on='user_id'):
\* inner again; one row per (session, conversion of the same user).
MergeInnerConversions(m, cv) ==
    Flatten([i \in 1..Len(m) |->
        LET ms == SelectSeq(cv, LAMBDA c : c.user_id = m[i].user_id)
        IN  [j \in 1..Len(ms) |->
               [session_id |-> m[i].session_id, user_id |-> m[i].user_id,
                channel_name |-> m[i].channel_name, event_time |-> m[i].event_time,
                event_date |-> m[i].event_date,
                holder_engagement |-> m[i].holder_engagement,
                closer_engagement |-> m[i].closer_engagement,
                impression_interaction |-> m[i].impression_interaction,
                cost |-> m[i].cost,
                conv_id |-> ms[j].conv_id, conv_time |-> ms[j].conv_time,
                revenue |-> ms[j].revenue]]])

\* The assembled table: both merges.
Assembled(cv, ss, sc) == MergeInnerConversions(MergeInnerCosts(ss, sc), cv)

\* sort_values(by='event_time', ascending=True): insertion of each row after
\* the rows that are not later than it (ties keep their input order).
RECURSIVE InsertByTime(_, _)
InsertByTime(r, sorted) ==
    IF sorted = <<>> THEN <<r>>
    ELSE IF Head(sorted).event_time <= r.event_time
         THEN <<Head(sorted)>> \o InsertByTime(r, Tail(sorted))
         ELSE <<r>> \o sorted

RECURSIVE SortRows(_)
SortRows(rows) ==
    IF rows = <<>> THEN <<>>
    ELSE InsertByTime(rows[Len(rows)], SortRows(SubSeq(rows, 1, Len(rows) - 1)))

\* ascending=False.
RECURSIVE Reversed(_)
Reversed(rows) == IF rows = <<>> THEN <<>> ELSE Reversed(Tail(rows)) \o <<Head(rows)>>
SortDescending(rows) == Reversed(SortRows(rows))

SortByEventTime(rows) == SortRows(rows)

\* idx = group_data['event_time'] >= group_data['conv_time'].values[0]
Eligible(r, conv_time) == r.event_time >= conv_time

ValidSessions(group_data) ==
    IF group_data = <<>> THEN <<>>
    ELSE SelectSeq(group_data, LAMBDA r : Eligible(r, group_data[1].conv_time))

\* The column selection, np.where(cost.isnull(), 0, 1) and the renames.
Touchpoint(r) ==
    [conversion_id |-> r.conv_id, session_id |-> r.session_id,
     timestamp |-> r.event_time, channel_label |-> r.channel_name,
     holder_engagement |-> r.holder_engagement,
     closer_engagement |-> r.closer_engagement,
     conversion |-> IF IsNull(r.cost) THEN 0 ELSE 1,
     impression_interaction |-> r.impression_interaction]

\* One (conv_id, user_id) group of merged_df, rows in merged_df's order.
GroupRows(merged, conv_id, user_id) ==
    SelectSeq(merged, LAMBDA r : r.conv_id = conv_id /\ r.user_id = user_id)

JourneyOf(merged, conv_id, user_id) ==
    LET sorted == SortByEventTime(GroupRows(merged, conv_id, user_id))
        valid == ValidSessions(sorted)
    IN  [k \in 1..Len(valid) |-> Touchpoint(valid[k])]

\* groupby(['conv_id', 'user_id']) iterates its groups in ascending key
\* order; only the keys that occur in merged_df are groups.
KeyLeq(a, b) == a[1] < b[1] \/ (a[1] = b[1] /\ a[2] <= b[2])

RECURSIVE KeysInOrder(_)
KeysInOrder(keys) ==
    IF keys = {} THEN <<>>
    ELSE LET k == CHOOSE x \in keys : \A o \in keys : KeyLeq(x, o)
         IN  <<k>> \o KeysInOrder(keys \ {k})

JourneyKeys(merged) ==
    KeysInOrder({<<merged[i].conv_id, merged[i].user_id>> : i \in 1..Len(merged)})

\* The loop of lines 116-139: customer_journeys.extend(...) per group.
CustomerJourneys(cv, ss, sc) ==
    LET merged == Assembled(cv, ss, sc)
        keys == JourneyKeys(merged)
    IN  Flatten([g \in 1..Len(keys) |-> JourneyOf(merged, keys[g][1], keys[g][2])])

\* ------------------------------------------ save_customer_journeys_to_csv
FieldNames ==
    <<"conversion_id", "session_id", "timestamp", "channel_label",
      "holder_engagement", "closer_engagement", "conversion",
      "impression_interaction">>

\* field_names = customer_journeys[0].keys() if customer_journeys else [];
\* writeheader() then writes that (possibly empty) header line.
SaveCsv(customer_journeys) ==
    [header |-> IF customer_journeys # <<>> THEN FieldNames ELSE <<>>,
     rows |-> customer_journeys]

\* pd.read_csv raises EmptyDataError on a file with no column to parse.
CsvReadable(file) == file.header # <<>>

\* -------------------------------------- create_attribution_customer_journey
\* how="left" on channel_label = channel: the weights of the matching row,
\* NaN weights when no row matches.
WeightRows(label) == SelectSeq(ChannelWeights, LAMBDA w : w.channel = label)

\* The closer's weight counted whether or not the touchpoint closes.
IhcCloserUnflagged(imp, hold, close, wi, wh, wc) ==
    LET I == Mul(Num(imp), wi)
        H == Mul(Num(hold), wh)
        s == Add(Add(I, H), wc)
    IN  IF IsNull(s) THEN NaN ELSE Num(s[1] \div 3)

\* I, H, C and ihc = (I + H + C) / 3 of one merged row.
Ihc(imp, hold, close, wi, wh, wc) ==
    LET I == Mul(Num(imp), wi)
        H == Mul(Num(hold), wh)
        C == Mul(Num(close), wc)
        s == Add(Add(I, H), C)
    IN  IF IsNull(s) THEN NaN ELSE Num(s[1] \div 3)

AttributedRows(t) ==
    LET ws == WeightRows(t.channel_label)
    IN  IF ws = <<>>
        THEN << [conv_id |-> t.conversion_id, session_id |-> t.session_id,
                 ihc |-> Ihc(t.impression_interaction, t.holder_engagement,
                             t.closer_engagement, NaN, NaN, NaN)] >>
        ELSE [j \in 1..Len(ws) |->
                [conv_id |-> t.conversion_id, session_id |-> t.session_id,
                 ihc |-> Ihc(t.impression_interaction, t.holder_engagement,
                             t.closer_engagement, Num(ws[j].initializer),
                             Num(ws[j].holder), Num(ws[j].closer))]]

Attribution(training_set) ==
    Flatten([i \in 1..Len(training_set) |-> AttributedRows(training_set[i])])

\* ------------------------------------------------ create_channel_reporting
\* .merge(df_session_costs, on='session_id', how='left')
MergeLeftCosts(ss, sc) ==
    Flatten([i \in 1..Len(ss) |->
        LET ms == SelectSeq(sc, LAMBDA c : c.session_id = ss[i].session_id)
            row(cost) == [session_id |-> ss[i].session_id, user_id |-> ss[i].user_id,
                          channel_name |-> ss[i].channel_name,
                          event_date |-> ss[i].event_date, cost |-> cost]
        IN  IF ms = <<>> THEN <<row(NaN)>>
            ELSE [j \in 1..Len(ms) |-> row(ms[j].cost)]])

\* .merge(df_attribution_customer_journey, on='session_id', how='left')
MergeLeftAttribution(m, attr) ==
    Flatten([i \in 1..Len(m) |->
        LET ms == SelectSeq(attr, LAMBDA a : a.session_id = m[i].session_id)
            row(conv_id, ihc) ==
                [session_id |-> m[i].session_id, user_id |-> m[i].user_id,
                 channel_name |-> m[i].channel_name, event_date |-> m[i].event_date,
                 cost |-> m[i].cost, conv_id_x |-> conv_id, ihc |-> ihc]
        IN  IF ms = <<>> THEN <<row(NaN, NaN)>>
            ELSE [j \in 1..Len(ms) |-> row(Num(ms[j].conv_id), ms[j].ihc)]])

\* .merge(df_conversions, on='user_id', how='left'); both sides carry a
\* conv_id column, which pandas keeps as conv_id_x and conv_id_y.
MergeLeftConversions(m, cv) ==
    Flatten([i \in 1..Len(m) |->
        LET ms == SelectSeq(cv, LAMBDA c : c.user_id = m[i].user_id)
            row(conv_id, revenue) ==
                [session_id |-> m[i].session_id, user_id |-> m[i].user_id,
                 channel_name |-> m[i].channel_name, event_date |-> m[i].event_date,
                 cost |-> m[i].cost, conv_id_x |-> m[i].conv_id_x, ihc |-> m[i].ihc,
                 conv_id_y |-> conv_id, revenue |-> revenue]
        IN  IF ms = <<>> THEN <<row(NaN, NaN)>>
            ELSE [j \in 1..Len(ms) |-> row(Num(ms[j].conv_id), Num(ms[j].revenue))]])

ReportMerged(ss, sc, attr, cv) ==
    MergeLeftConversions(MergeLeftAttribution(MergeLeftCosts(ss, sc), attr), cv)

\* The row labels (the merge's fresh RangeIndex, here from 1) of one
\* (channel_name, event_date) group.
GroupLabels(merged, channel, date) ==
    {i \in 1..Len(merged) : merged[i].channel_name = channel /\ merged[i].event_date = date}

\* The product taken by position instead of by label: the group's k-th
\* revenue times the table's k-th ihc.
RECURSIVE LabelsInOrder(_)
LabelsInOrder(labels) ==
    IF labels = {} THEN <<>>
    ELSE LET i == CHOOSE x \in labels : \A o \in labels : x <= o
         IN  <<i>> \o LabelsInOrder(labels \ {i})
WeightedRevenueByPosition(merged, labels) ==
    LET at == LabelsInOrder(labels)
    IN  SumSkipNa([k \in 1..Len(at) |-> Mul(merged[at[k]].revenue, merged[k].ihc)])

\* 'revenue': lambda x: (x * merged_df['ihc']).sum().  x is the group's
\* revenue, labelled by the group's rows; the product aligns the two Series
\* on their labels, is NaN at every label x lacks, and sum() skips NaN.
WeightedRevenue(merged, labels) ==
    SumSkipNa([i \in 1..Len(merged) |->
                 IF i \in labels THEN Mul(merged[i].revenue, merged[i].ihc) ELSE NaN])

ColumnOf(merged, labels, col) ==
    LET rows == SelectSeq([i \in 1..Len(merged) |-> [at |-> i, cell |-> merged[i][col]]],
                          LAMBDA e : e.at \in labels)
    IN  [k \in 1..Len(rows) |-> rows[k].cell]

ReportRow(merged, channel, date) ==
    LET labels == GroupLabels(merged, channel, date)
    IN  [channel_name |-> channel, date |-> date,
         cost |-> Num(SumSkipNa(ColumnOf(merged, labels, "cost"))),
         ihc |-> Num(SumSkipNa(ColumnOf(merged, labels, "ihc"))),
         ihc_revenue |-> Num(WeightedRevenue(merged, labels))]

\* groupby(['channel_name', 'event_date']) in ascending key order.
ChannelOrder == <<"email", "paid_search", "unlisted">>
ChannelRank(c) == CHOOSE k \in 1..Len(ChannelOrder) : ChannelOrder[k] = c

ReportKeys(merged) ==
    KeysInOrder({<<ChannelRank(merged[i].channel_name), merged[i].event_date>> :
                   i \in 1..Len(merged)})

ChannelReporting(ss, sc, attr, cv) ==
    LET merged == ReportMerged(ss, sc, attr, cv)
        keys == ReportKeys(merged)
    IN  [g \in 1..Len(keys) |-> ReportRow(merged, ChannelOrder[keys[g][1]], keys[g][2])]

\* ------------------------------------------ compute_metrics_and_export_csv
WithMetrics(r) ==
    [channel_name |-> r.channel_name, date |-> r.date, cost |-> r.cost,
     ihc |-> r.ihc, ihc_revenue |-> r.ihc_revenue,
     CPO |-> Quotient(r.cost, r.ihc),
     ROAS |-> Quotient(r.ihc_revenue, r.cost)]

Metrics(report) == [g \in 1..Len(report) |-> WithMetrics(report[g])]

\* pd.read_csv of the artifact: the rows as written (the integer and text
\* cells read back as they were written; timestamps come back as text and
\* are not used again).
ReadCsv(file) == file.rows

\* ------------------------------------------------------------------ state
VARIABLES
    pc,                              \* the statement of connect() to run next
    conn,                            \* "none" | "open" | "closed"
    closes,                          \* attempts to close the connection
    store_failed,                    \* the run hit a failure of the data store
    error,                           \* the class of the exception in flight, or "none"
    conversions,                     \* the store's input tables
    session_sources,
    session_costs,
    df_conversions,                  \* connect()'s locals; None until assigned
    df_session_sources,
    df_session_costs,
    training_set_csv,                \* ihc_parameter_training_set.csv
    df_attribution_customer_journey,
    df_channel_reporting,
    attribution_customer_journey,    \* the store's output tables
    channel_reporting,
    report_file                      \* channel_reporting_with_metrics.csv

vars ==
    <<pc, conn, closes, store_failed, error, conversions, session_sources, session_costs,
      df_conversions, df_session_sources, df_session_costs, training_set_csv,
      df_attribution_customer_journey, df_channel_reporting,
      attribution_customer_journey, channel_reporting, report_file>>

inputs == <<conversions, session_sources, session_costs>>
frames == <<df_conversions, df_session_sources, df_session_costs>>
derived == <<training_set_csv, df_attribution_customer_journey, df_channel_reporting>>
outputs == <<attribution_customer_journey, channel_reporting, report_file>>

None == [none |-> TRUE, rows |-> <<>>]
Frame(rows) == [none |-> FALSE, rows |-> rows]
Absent == [written |-> FALSE, rows |-> <<>>]
Written(rows) == [written |-> TRUE, rows |-> rows]

\* ----------------------------------------------------------------- inputs
\* Tables of at most n rows drawn from a row set.
TablesUpTo(rows, n) == UNION {[1..k -> rows] : k \in 0..n}

\* session_sources: session_id is unique (the row's position).
SessionTable(t) ==
    [i \in 1..Len(t) |->
        [session_id |-> i, user_id |-> t[i].user_id, channel_name |-> t[i].channel_name,
         event_time |-> t[i].event_time, event_date |-> t[i].event_date,
         holder_engagement |-> t[i].holder_engagement,
         closer_engagement |-> t[i].closer_engagement,
         impression_interaction |-> t[i].impression_interaction]]

\* session_costs: at most one row per session; choice[i] is "none" (no row),
\* or the row's cost cell.
RECURSIVE CostTable(_, _)
CostTable(choice, i) ==
    IF i > Len(choice) THEN <<>>
    ELSE (IF choice[i].row THEN <<[session_id |-> i, cost |-> choice[i].cost]>> ELSE <<>>)
         \o CostTable(choice, i + 1)

\* conversions: conv_id is unique (the row's position).
ConversionTable(t) ==
    [i \in 1..Len(t) |->
        [conv_id |-> i, user_id |-> t[i].user_id, conv_time |-> t[i].conv_time,
         revenue |-> t[i].revenue]]

NoCostRow == [row |-> FALSE, cost |-> NaN]
CostRow(cell) == [row |-> TRUE, cost |-> cell]

StoreHolds(sessionRows, costChoices, convRows) ==
    /\ \E t \in TablesUpTo(sessionRows, MaxSessions) :
         /\ session_sources = SessionTable(t)
         /\ \E choice \in [1..Len(t) -> costChoices] :
              session_costs = CostTable(choice, 1)
    /\ \E t \in TablesUpTo(convRows, MaxConvs) : conversions = ConversionTable(t)

Fresh ==
    /\ training_set_csv = SaveCsv(<<>>)
    /\ df_attribution_customer_journey = None
    /\ df_channel_reporting = None
    /\ attribution_customer_journey = Absent
    /\ channel_reporting = Absent
    /\ report_file = Absent
    /\ closes = 0
    /\ store_failed = FALSE
    /\ error = "none"

\* connect() is entered: conn = None, nothing fetched.
Entered ==
    /\ pc = "connect"
    /\ conn = "none"
    /\ df_conversions = None
    /\ df_session_sources = None
    /\ df_session_costs = None
    /\ Fresh

\* The three tables are fetched and the cursor closed (line 40).
Fetched ==
    /\ pc = "build"
    /\ conn = "open"
    /\ df_conversions = Frame(conversions)
    /\ df_session_sources = Frame(session_sources)
    /\ df_session_costs = Frame(session_costs)
    /\ Fresh

\* ---------------------------------------------------------------- actions
\* Lines 15-19: config() and psycopg2.connect(**params).
ConnectOk ==
    /\ pc = "connect"
    /\ pc' = "version"
    /\ conn' = "open"
    /\ UNCHANGED <<closes, store_failed, error, inputs, frames, derived, outputs>>

ConnectFails ==
    /\ pc = "connect"
    /\ pc' = "except"
    /\ error' = "OperationalError"
    /\ store_failed' = TRUE
    /\ UNCHANGED <<conn, closes, inputs, frames, derived, outputs>>

\* Lines 22-28: the cursor and SELECT version().
VersionOk ==
    /\ pc = "version"
    /\ pc' = "fetch_conversions"
    /\ UNCHANGED <<conn, closes, store_failed, error, inputs, frames, derived, outputs>>

VersionFails ==
    /\ pc = "version"
    /\ pc' = "except"
    /\ error' = "OperationalError"
    /\ store_failed' = TRUE
    /\ UNCHANGED <<conn, closes, inputs, frames, derived, outputs>>

\* Lines 31-37 and fetch_data: a failure is printed and None returned.
FetchConversions(ok) ==
    /\ pc = "fetch_conversions"
    /\ pc' = "fetch_session_sources"
    /\ df_conversions' = IF ok THEN Frame(conversions) ELSE None
    /\ store_failed' = (store_failed \/ ~ok)
    /\ UNCHANGED <<conn, closes, error, inputs, df_session_sources, df_session_costs,
                   derived, outputs>>

FetchSessionSources(ok) ==
    /\ pc = "fetch_session_sources"
    /\ pc' = "fetch_session_costs"
    /\ df_session_sources' = IF ok THEN Frame(session_sources) ELSE None
    /\ store_failed' = (store_failed \/ ~ok)
    /\ UNCHANGED <<conn, closes, error, inputs, df_conversions, df_session_costs,
                   derived, outputs>>

\* ... and line 40, cur.close().
FetchSessionCosts(ok) ==
    /\ pc = "fetch_session_costs"
    /\ pc' = "build"
    /\ df_session_costs' = IF ok THEN Frame(session_costs) ELSE None
    /\ store_failed' = (store_failed \/ ~ok)
    /\ UNCHANGED <<conn, closes, error, inputs, df_conversions, df_session_sources,
                   derived, outputs>>

\* Line 43, build_customer_journeys: pd.merge raises TypeError on None.
BuildRaises ==
    /\ pc = "build"
    /\ df_conversions.none \/ df_session_sources.none \/ df_session_costs.none
    /\ pc' = "except"
    /\ error' = "TypeError"
    /\ UNCHANGED <<conn, closes, store_failed, inputs, frames, derived, outputs>>

BuildCustomerJourneys ==
    /\ pc = "build"
    /\ ~(df_conversions.none \/ df_session_sources.none \/ df_session_costs.none)
    /\ training_set_csv' = SaveCsv(CustomerJourneys(df_conversions.rows,
                                       df_session_sources.rows, df_session_costs.rows))
    /\ pc' = "attribution"
    /\ UNCHANGED <<conn, closes, store_failed, error, inputs, frames,
                   df_attribution_customer_journey, df_channel_reporting, outputs>>

\* Line 46, create_attribution_customer_journey.
AttributionRaises ==
    /\ pc = "attribution"
    /\ ~CsvReadable(training_set_csv)
    /\ pc' = "except"
    /\ error' = "EmptyDataError"
    /\ UNCHANGED <<conn, closes, store_failed, inputs, frames, derived, outputs>>

CreateAttribution ==
    /\ pc = "attribution"
    /\ CsvReadable(training_set_csv)
    /\ df_attribution_customer_journey' = Frame(Attribution(ReadCsv(training_set_csv)))
    /\ pc' = "reporting"
    /\ UNCHANGED <<conn, closes, store_failed, error, inputs, frames, training_set_csv,
                   df_channel_reporting, outputs>>

\* Line 49, create_channel_reporting.
CreateChannelReporting ==
    /\ pc = "reporting"
    /\ df_channel_reporting' =
         Frame(ChannelReporting(df_session_sources.rows, df_session_costs.rows,
                                df_attribution_customer_journey.rows,
                                df_conversions.rows))
    /\ pc' = "write_attribution"
    /\ UNCHANGED <<conn, closes, store_failed, error, inputs, frames, training_set_csv,
                   df_attribution_customer_journey, outputs>>

\* Lines 52 and 55, write_to_db: to_sql(if_exists='replace'); a failure is
\* printed and the run goes on.
WriteAttribution(ok) ==
    /\ pc = "write_attribution"
    /\ pc' = "write_reporting"
    /\ attribution_customer_journey' =
         IF ok THEN Written(df_attribution_customer_journey.rows)
               ELSE attribution_customer_journey
    /\ store_failed' = (store_failed \/ ~ok)
    /\ UNCHANGED <<conn, closes, error, inputs, frames, derived, channel_reporting, report_file>>

WriteChannelReporting(ok) ==
    /\ pc = "write_reporting"
    /\ pc' = "metrics"
    /\ channel_reporting' =
         IF ok THEN Written(df_channel_reporting.rows) ELSE channel_reporting
    /\ store_failed' = (store_failed \/ ~ok)
    /\ UNCHANGED <<conn, closes, error, inputs, frames, derived, attribution_customer_journey,
                   report_file>>

\* Line 58, compute_metrics_and_export_csv; the try block ends.
ComputeMetricsAndExport ==
    /\ pc = "metrics"
    /\ report_file' = Written(Metrics(df_channel_reporting.rows))
    /\ pc' = "finally"
    /\ UNCHANGED <<conn, closes, store_failed, error, inputs, frames, derived,
                   attribution_customer_journey, channel_reporting>>

\* Lines 61-62: except (Exception, psycopg2.DatabaseError).  The classes
\* raised in the try block: psycopg2.OperationalError is a DatabaseError,
\* itself an Exception, as are TypeError and pandas' EmptyDataError.
DatabaseErrors == {"OperationalError"}
Exceptions == DatabaseErrors \cup {"TypeError", "EmptyDataError"}
Handled(e) == e \in Exceptions \/ e \in DatabaseErrors

\* A handled exception is printed; any other is re-raised after finally.
Except ==
    /\ pc = "except"
    /\ pc' = "finally"
    /\ error' = IF Handled(error) THEN "none" ELSE error
    /\ UNCHANGED <<conn, closes, store_failed, inputs, frames, derived, outputs>>

\* close() called whether or not a connection was acquired.
CloseAlways(c) == TRUE

\* Lines 63-67: if conn is not None: conn.close().
CloseNeeded(c) == c # "none"

Finally ==
    /\ pc = "finally"
    /\ pc' = IF error = "none" THEN "done" ELSE "raised"
    /\ conn' = IF CloseNeeded(conn) /\ conn = "open" THEN "closed" ELSE conn
    /\ closes' = IF CloseNeeded(conn) THEN closes + 1 ELSE closes
    /\ UNCHANGED <<store_failed, error, inputs, frames, derived, outputs>>

\* The stages on data that was fetched: no store failure.
Pipeline ==
    \/ BuildCustomerJourneys
    \/ AttributionRaises
    \/ CreateAttribution
    \/ CreateChannelReporting
    \/ WriteAttribution(TRUE)
    \/ WriteChannelReporting(TRUE)
    \/ ComputeMetricsAndExport
    \/ Except
    \/ Finally

Next ==
    \/ ConnectOk
    \/ ConnectFails
    \/ VersionOk
    \/ VersionFails
    \/ \E ok \in BOOLEAN : FetchConversions(ok)
    \/ \E ok \in BOOLEAN : FetchSessionSources(ok)
    \/ \E ok \in BOOLEAN : FetchSessionCosts(ok)
    \/ BuildRaises
    \/ BuildCustomerJourneys
    \/ AttributionRaises
    \/ CreateAttribution
    \/ CreateChannelReporting
    \/ \E ok \in BOOLEAN : WriteAttribution(ok)
    \/ \E ok \in BOOLEAN : WriteChannelReporting(ok)
    \/ ComputeMetricsAndExport
    \/ Except
    \/ Finally

\* -------------------------------------------------------- specifications
SessionRow(u, c, t, d, i, h, cl) ==
    [user_id |-> u, channel_name |-> c, event_time |-> t, event_date |-> d,
     impression_interaction |-> i, holder_engagement |-> h, closer_engagement |-> cl]

ConvRow(u, t, r) == [user_id |-> u, conv_time |-> t, revenue |-> r]

\* A whole run of connect(), the store failing wherever it can: sessions of
\* one user, with or without a cost row, and that user's conversions.
RunSessionRows == {SessionRow(1, "paid_search", MaxTime, 1, 0, 0, 1)}
RunCostChoices == {NoCostRow, CostRow(Num(2))}
RunConvRows == {ConvRow(1, 0, 100)}

Init == StoreHolds(RunSessionRows, RunCostChoices, RunConvRows) /\ Entered
Spec == Init /\ [][Next]_vars

\* Journey building: users and times vary; every session has its cost row.
JourneySessionRows == {SessionRow(u, "paid_search", t, 1, 0, 0, 1) : u \in Users, t \in Times}
JourneyCostChoices == {CostRow(Num(2))}
JourneyConvRows == {ConvRow(u, t, 100) : u \in Users, t \in Times}

InitJourneys == StoreHolds(JourneySessionRows, JourneyCostChoices, JourneyConvRows) /\ Fetched
SpecJourneys == InitJourneys /\ [][Pipeline]_vars

\* Attribution: channels and engagement flags vary; one user, whose sessions
\* are all eligible.
AttributionSessionRows ==
    {SessionRow(1, c, MaxTime, 1, i, h, cl) : c \in Channels, i \in Flags, h \in Flags, cl \in Flags}
AttributionCostChoices == {CostRow(Num(2))}
AttributionConvRows == {ConvRow(1, 0, 100)}

InitAttribution ==
    StoreHolds(AttributionSessionRows, AttributionCostChoices, AttributionConvRows) /\ Fetched
SpecAttribution == InitAttribution /\ [][Pipeline]_vars

\* Reporting: the (channel, date) group, the user and the revenue vary.
ReportingSessionRows ==
    {SessionRow(u, c, MaxTime, d, 0, 0, 1) : u \in Users, c \in {"paid_search", "email"}, d \in Dates}
ReportingCostChoices == {CostRow(Num(2))}
ReportingConvRows == {ConvRow(u, 0, r) : u \in Users, r \in {50, 100}}

InitReporting ==
    StoreHolds(ReportingSessionRows, ReportingCostChoices, ReportingConvRows) /\ Fetched
SpecReporting == InitReporting /\ [][Pipeline]_vars

\* ------------------------------------------------------------- properties
AfterBuild ==
    pc \in {"attribution", "reporting", "write_attribution", "write_reporting",
            "metrics", "finally", "done"} /\ ~df_conversions.none
           /\ ~df_session_sources.none /\ ~df_session_costs.none

AfterAttribution == ~df_attribution_customer_journey.none
AfterReporting == ~df_channel_reporting.none

\* C1: the Session-Cost merge of build_customer_journeys keeps every session:
\* each session whose user has a conversion is in the assembled table exactly
\* once per conversion of that user, with or without a cost row.
C1_EverySessionAssembled ==
    AfterBuild =>
        LET merged == Assembled(df_conversions.rows, df_session_sources.rows,
                                df_session_costs.rows)
        IN  \A i \in 1..Len(df_session_sources.rows) :
            \A c \in 1..Len(df_conversions.rows) :
                df_conversions.rows[c].user_id = df_session_sources.rows[i].user_id =>
                    Cardinality({k \in 1..Len(merged) :
                                   /\ merged[k].session_id = df_session_sources.rows[i].session_id
                                   /\ merged[k].conv_id = df_conversions.rows[c].conv_id}) = 1

\* q is the finite quotient a / b, or 0 when b is 0.
FiniteRatio(q, a, b) ==
    /\ q.kind = "num"
    /\ b[1] = 0 => q.num = 0
    /\ b[1] # 0 => q.num * b[1] = a[1] * q.den

\* C2: every row of the exported report has a finite CPO and ROAS:
\* CPO = cost / ihc, or 0 when ihc is 0; ROAS = ihc_revenue / cost, or 0
\* when cost is 0.
C2_MetricsFinite ==
    report_file.written =>
        \A g \in 1..Len(report_file.rows) :
            LET r == report_file.rows[g]
            IN  /\ FiniteRatio(r.CPO, r.cost, r.ihc)
                /\ FiniteRatio(r.ROAS, r.ihc_revenue, r.cost)

\* The sum over the rows at the given labels of revenue times ihc.
RECURSIVE OwnProducts(_, _)
OwnProducts(merged, at) ==
    IF at = {} THEN 0
    ELSE LET i == CHOOSE x \in at : TRUE
             own == IF IsNull(merged[i].revenue) \/ IsNull(merged[i].ihc) THEN 0
                    ELSE merged[i].revenue[1] * merged[i].ihc[1]
         IN  own + OwnProducts(merged, at \ {i})

\* merged_df of create_channel_reporting.
JoinedRows ==
    ReportMerged(df_session_sources.rows, df_session_costs.rows,
                 df_attribution_customer_journey.rows, df_conversions.rows)

\* C3: the ihc_revenue of each (channel_name, date) report row is the sum,
\* over exactly the joined rows of that group, of the row's own revenue times
\* the row's own ihc (a row lacking either contributes nothing).
C3_OwnRevenueTimesOwnIhc ==
    AfterReporting =>
        LET joined == JoinedRows
        IN  \A g \in 1..Len(df_channel_reporting.rows) :
                LET r == df_channel_reporting.rows[g]
                    at == {i \in 1..Len(joined) :
                             /\ joined[i].channel_name = r.channel_name
                             /\ joined[i].event_date = r.date}
                IN  r.ihc_revenue = Num(OwnProducts(joined, at))

\* At least two groups, each with credited revenue, and joined rows of two
\* channels that differ in credit and in revenue.
C3_Witness ==
    /\ AfterReporting
    /\ Len(df_channel_reporting.rows) >= 2
    /\ \A g \in 1..Len(df_channel_reporting.rows) :
           df_channel_reporting.rows[g].ihc_revenue[1] > 0
    /\ \E i, j \in 1..Len(JoinedRows) :
           /\ JoinedRows[i].channel_name # JoinedRows[j].channel_name
           /\ ~IsNull(JoinedRows[i].ihc) /\ ~IsNull(JoinedRows[j].ihc)
           /\ JoinedRows[i].ihc # JoinedRows[j].ihc
           /\ JoinedRows[i].revenue # JoinedRows[j].revenue

\* The number of conversions of a user.
ConversionsOf(user_id) ==
    Cardinality({c \in 1..Len(df_conversions.rows) : df_conversions.rows[c].user_id = user_id})

\* Once for a user without conversion.
AtLeastOnce(n) == IF n = 0 THEN 1 ELSE n

\* The costs of the sessions of a (channel, date), from session i on, each
\* times the number of its user's conversions (at least once).
RECURSIVE ExpectedCost(_, _, _)
ExpectedCost(channel, date, i) ==
    IF i > Len(df_session_sources.rows) THEN 0
    ELSE LET s == df_session_sources.rows[i]
             cs == SelectSeq(df_session_costs.rows, LAMBDA c : c.session_id = s.session_id)
             own == IF s.channel_name = channel /\ s.event_date = date
                    THEN SumSkipNa([k \in 1..Len(cs) |-> cs[k].cost]) * AtLeastOnce(ConversionsOf(s.user_id))
                    ELSE 0
         IN  own + ExpectedCost(channel, date, i + 1)

\* C4: in create_channel_reporting the joins on session_id keep the row
\* count and only the join with conversions expands rows, so the cost of a
\* report row is the sum of its sessions' costs, each counted once per
\* conversion of its user (once if the user has none).
C4_CostCountedOncePerConversion ==
    AfterReporting =>
        /\ Len(MergeLeftCosts(df_session_sources.rows, df_session_costs.rows))
             = Len(df_session_sources.rows)
        /\ Len(MergeLeftAttribution(
                 MergeLeftCosts(df_session_sources.rows, df_session_costs.rows),
                 df_attribution_customer_journey.rows))
             = Len(df_session_sources.rows)
        /\ \A g \in 1..Len(df_channel_reporting.rows) :
               LET r == df_channel_reporting.rows[g]
               IN  r.cost = Num(ExpectedCost(r.channel_name, r.date, 1))

\* C5: a run that hit a failure of the data store commits no output: it has
\* not replaced attribution_customer_journey or channel_reporting and has
\* not written the final report file.
C5_NoOutputAfterStoreFailure ==
    store_failed =>
        /\ ~attribution_customer_journey.written
        /\ ~channel_reporting.written
        /\ ~report_file.written

\* C6: with no session and no conversion no stage fails: the persisted
\* artifact has zero rows under the full header, the attribution is an
\* empty table, and the run ends with a header-only final report.
C6_EmptyInputRunsThrough ==
    (session_sources = <<>> /\ conversions = <<>> /\ ~store_failed) =>
        /\ pc # "except"
        /\ AfterBuild => training_set_csv = [header |-> FieldNames, rows |-> <<>>]
        /\ pc = "done" => /\ df_attribution_customer_journey = Frame(<<>>)
                          /\ report_file = Written(<<>>)

ZeroFlags(t) ==
    t.impression_interaction = 0 /\ t.holder_engagement = 0 /\ t.closer_engagement = 0

\* The credits the attribution output holds for touchpoint t.
CreditsOf(t) ==
    {df_attribution_customer_journey.rows[k].ihc :
       k \in {k \in 1..Len(df_attribution_customer_journey.rows) :
                /\ df_attribution_customer_journey.rows[k].conv_id = t.conversion_id
                /\ df_attribution_customer_journey.rows[k].session_id = t.session_id}}

\* C7: a touchpoint whose three engagement flags are all 0 has ihc exactly 0,
\* whatever its channel_label, with or without a ChannelWeight row for it.
C7_ZeroFlagsZeroIhc ==
    AfterAttribution =>
        \A i \in 1..Len(training_set_csv.rows) :
            ZeroFlags(training_set_csv.rows[i]) =>
                CreditsOf(training_set_csv.rows[i]) = {Num(0)}

\* C7 as amended: with all three flags 0, ihc is exactly 0 when a
\* ChannelWeight row matches the channel_label, and NaN when none does.
C7_ZeroFlagsZeroIhcWhenWeighted ==
    AfterAttribution =>
        \A i \in 1..Len(training_set_csv.rows) :
            LET t == training_set_csv.rows[i]
            IN  ZeroFlags(t) =>
                    CreditsOf(t) = IF WeightRows(t.channel_label) # <<>>
                                   THEN {Num(0)} ELSE {NaN}

\* Two touchpoints with all flags 0, one on a weighted channel and one on a
\* channel with no ChannelWeight row, have been attributed.
C7_Witness ==
    /\ AfterAttribution
    /\ \E i, j \in 1..Len(training_set_csv.rows) :
           /\ ZeroFlags(training_set_csv.rows[i])
           /\ ZeroFlags(training_set_csv.rows[j])
           /\ WeightRows(training_set_csv.rows[i].channel_label) # <<>>
           /\ WeightRows(training_set_csv.rows[j].channel_label) = <<>>

\* C8: a touchpoint whose channel_label matches no ChannelWeight row stays in
\* the attribution output with a null ihc, and the final report's row for a
\* (channel_name, date) built only from such touchpoints shows a null ihc
\* and ihc_revenue, not a number.
C8_NullCreditReachesReport ==
    report_file.written =>
        /\ \A i \in 1..Len(training_set_csv.rows) :
               WeightRows(training_set_csv.rows[i].channel_label) = <<>> =>
                   CreditsOf(training_set_csv.rows[i]) = {NaN}
        /\ \A g \in 1..Len(report_file.rows) :
               WeightRows(report_file.rows[g].channel_name) = <<>> =>
                   /\ IsNull(report_file.rows[g].ihc)
                   /\ IsNull(report_file.rows[g].ihc_revenue)

C10_ClosedExactlyOnce ==
    /\ pc = "done" => \/ conn = "closed" /\ closes = 1
                      \/ conn = "none" /\ closes = 0
    /\ pc # "done" => closes = 0 /\ conn # "closed"
    /\ pc \notin {"connect", "except", "finally", "done"} => conn = "open"
    /\ pc # "raised"

\* connect() has returned after an exception raised with the connection open.
C10_Witness ==
    /\ pc = "done"
    /\ conn = "closed"
    /\ closes = 1
    /\ df_session_costs.none
    /\ ~report_file.written

====
